---- MODULE Spec2Model ----
(***************************************************************************)
(* The /api/audio serverless function: a fallback-chained resolver that    *)
(* tries a metadata search (JioSaavn), then the Stremio instance pool,     *)
(* then the Invidious instance pool.  The repository holds three versions  *)
(* of the function (src/unnamed/part_000, src/unnamed/part_001 and         *)
(* src/api/audio.js); the variable `variant` says which one serves the     *)
(* request.                                                                *)
(*                                                                         *)
(* Strings are sequences of one-character strings, so that toLowerCase,    *)
(* includes, split, trim and parseInt are computed and not assumed.        *)
(* Numbers are records [nan, v] so that NaN compares as in JavaScript.     *)
(* Scores are exact rationals scaled by 120 * authorNames.length.          *)
(***************************************************************************)
EXTENDS Integers, Sequences, FiniteSets, TLC

(* ------------------------------------------------------------------ *)
(* Bounds of the model                                                  *)
(* ------------------------------------------------------------------ *)

\* longest candidate list the metadata search answers with
MaxResults == 2

(* ------------------------------------------------------------------ *)
(* JavaScript values                                                    *)
(* ------------------------------------------------------------------ *)

\* a query parameter or an object field that is not there
undefined == <<"undefined">>

\* JavaScript truthiness of a string-or-undefined value
Truthy(s) == s # undefined /\ s # <<>>

\* a list of strings that is not there
undefinedList == << undefined >>

Num(n) == [nan |-> FALSE, v |-> n]

NaN == [nan |-> TRUE, v |-> 0]

\* a < b on numbers; every comparison with NaN is false
Lt(a, b) == ~a.nan /\ ~b.nan /\ a.v < b.v

\* a >= b on numbers
Ge(a, b) == ~a.nan /\ ~b.nan /\ a.v >= b.v

\* a === b on numbers
Eq(a, b) == ~a.nan /\ ~b.nan /\ a.v = b.v

\* a > b on numbers
Gt(a, b) == ~a.nan /\ ~b.nan /\ a.v > b.v

Abs(n) == IF n < 0 THEN 0 - n ELSE n

Max(a, b) == IF a >= b THEN a ELSE b

(* ------------------------------------------------------------------ *)
(* String functions                                                     *)
(* ------------------------------------------------------------------ *)

LowerOf(c) ==
  CASE c = "A" -> "a"
    [] c = "B" -> "b"
    [] c = "C" -> "c"
    [] c = "Q" -> "q"
    [] c = "X" -> "x"
    [] c = "Y" -> "y"
    [] c = "Z" -> "z"
    [] OTHER -> c

\* String.prototype.toLowerCase
toLowerCase(s) == [k \in 1..Len(s) |-> LowerOf(s[k])]

\* String.prototype.includes: t occurs in s as a contiguous run
includes(s, t) ==
  \E k \in 0..(Len(s) - Len(t)) : SubSeq(s, k + 1, k + Len(t)) = t

\* s.replace(/\s+/g, '')
stripSpaces(s) == SelectSeq(s, LAMBDA c : c # " ")

RECURSIVE trimLeft(_)
trimLeft(s) == IF s # <<>> /\ Head(s) = " " THEN trimLeft(Tail(s)) ELSE s

RECURSIVE trimRight(_)
trimRight(s) ==
  IF s # <<>> /\ s[Len(s)] = " " THEN trimRight(SubSeq(s, 1, Len(s) - 1)) ELSE s

\* String.prototype.trim
trim(s) == trimRight(trimLeft(s))

\* s.split(/[,&]/): the pieces between the separators, empty pieces kept
RECURSIVE split(_)
split(s) ==
  IF \A k \in 1..Len(s) : s[k] \notin {",", "&"}
  THEN <<s>>
  ELSE LET k == CHOOSE j \in 1..Len(s) :
                  /\ s[j] \in {",", "&"}
                  /\ \A h \in 1..(j - 1) : s[h] \notin {",", "&"}
       IN  <<SubSeq(s, 1, k - 1)>> \o split(SubSeq(s, k + 1, Len(s)))

Digits == <<"0", "1", "2", "3", "4", "5", "6", "7", "8", "9">>

IsDigit(c) == \E d \in 1..10 : Digits[d] = c

DigitVal(c) == (CHOOSE d \in 1..10 : Digits[d] = c) - 1

RECURSIVE digitsValue(_, _)
digitsValue(s, acc) ==
  IF s = <<>> \/ ~IsDigit(Head(s)) THEN acc
  ELSE digitsValue(Tail(s), 10 * acc + DigitVal(Head(s)))

\* parseInt: leading blanks skipped, an optional sign, then the leading run
\* of digits; NaN when there is no digit (also for undefined, never passed)
parseInt(s) ==
  LET t == trimLeft(s)
      neg == t # <<>> /\ Head(t) = "-"
      u == IF t # <<>> /\ Head(t) \in {"-", "+"} THEN Tail(t) ELSE t
  IN  IF s = undefined \/ u = <<>> \/ ~IsDigit(Head(u)) THEN NaN
      ELSE Num(IF neg THEN 0 - digitsValue(u, 0) ELSE digitsValue(u, 0))

(* ------------------------------------------------------------------ *)
(* The three versions of the function                                   *)
(* ------------------------------------------------------------------ *)

Variants == {"part_000", "part_001", "audio.js"}

INVIDIOUS_INSTANCES ==
  << "invidious.darkness.services", "yt.omada.cafe", "invidious.reallyaweso.me",
     "invidious.f5.si", "inv-veltrix-2.zeabur.app", "inv-veltrix.zeabur.app",
     "inv-veltrix-3.zeabur.app", "inv.vern.cc", "invidious.materialio.us",
     "y.com.sb" >>

STREMIO_INSTANCES(v) ==
  IF v = "audio.js"
  THEN << "https://ubiquitous-rugelach-b30b3f.netlify.app",
          "https://super-duper-system.netlify.app",
          "https://ubiquitous-rugelach-b30b3f.netlify.app" >>
  ELSE << "https://ubiquitous-rugelach-b30b3f.netlify.app",
          "https://super-duper-system.netlify.app" >>

SAAVN_BASE_URL == "https://saavn.sumit.co"

(* ------------------------------------------------------------------ *)
(* Search hits.  A hit has a name (or none), primary and featured       *)
(* artists (undefined when the hit has no artists object) and a         *)
(* duration; duration 0 stands for a zero and for a missing duration,   *)
(* which the code does not tell apart (it tests `result.duration ?`).   *)
(* ------------------------------------------------------------------ *)

Hit(name, primary, featured, duration) ==
  [name |-> name, primary |-> primary, featured |-> featured, duration |-> duration]

Catalogue ==
  << Hit(<<"a", "b">>, << <<"x">> >>, <<>>, 100),
     Hit(<<"c">>, << <<"q">> >>, <<>>, 105),
     Hit(<<"A", "b", "c">>, << <<"X", " ", "y">> >>, <<>>, 145),
     Hit(<<"c">>, undefinedList, undefinedList, 0),
     Hit(<<"a", "b">>, << <<"q">> >>, <<>>, 145),
     Hit(<<"a", "b">>, <<>>, << <<"x">> >>, 110),
     Hit(undefined, << <<"x">> >>, <<>>, 100),
     Hit(<<"c">>, << <<"x">> >>, <<>>, 0),
     Hit(<<"c">>, << <<"q">> >>, << <<"x">> >>, 105) >>

\* the other fields of a hit that the result is derived from: the urls of
\* its downloadUrl entries and of its image entries, in order (a url is a
\* string of one symbol), and the names of artists.all (undefinedList: the
\* hit has no such field)
Media(downloadUrl, image, all) ==
  [downloadUrl |-> downloadUrl, image |-> image, all |-> all]

\* Media of the hits of Catalogue, position by position
CatalogueMedia ==
  << Media(<<<<"d96">>, <<"d320">>>>, <<<<"i50">>, <<"i500">>>>, << <<"x">> >>),
     Media(<<<<"d320">>>>, <<>>, << <<"q">> >>),
     Media(<<>>, <<<<"i50">>>>, << <<"X", " ", "y">> >>),
     Media(undefinedList, undefinedList, undefinedList),
     Media(<<<<"d96">>, <<"d160">>, <<"d320">>>>, <<<<"i500">>>>, << <<"q">>, <<"w">> >>),
     Media(<<<<"d96">>>>, undefinedList, << <<"x">> >>),
     Media(<<<<"d320">>>>, <<<<"i50">>, <<"i150">>, <<"i500">>>>, << <<"x">> >>),
     Media(undefinedList, <<<<"i50">>, <<"i500">>>>, <<>>),
     Media(<<<<"d160">>, <<"d320">>>>, <<<<"i150">>, <<"i500">>>>, << <<"q">>, <<"x">> >>) >>

\* the candidate lists data.data.results may hold
ResultLists == UNION {[1..n -> 1..Len(Catalogue)] : n \in 0..MaxResults}

\* the parsed bodies of a 2xx answer of the metadata search
SaavnBodies ==
  {[success |-> FALSE, results |-> <<>>]}
    \cup {[success |-> TRUE, results |-> l] : l \in ResultLists}

(* ------------------------------------------------------------------ *)
(* searchJioSaavn: choice of bestMatch                                  *)
(* ------------------------------------------------------------------ *)

DurationSentinel == 999

DurationSentinelOld == 99999

CloseDuration == 10

CloseDurationOld == 30

DurationTolerance == 60

ArtistWeight == 10

DurationWeight == 3

ScoreFloor == 5

Ok(pos) == [kind |-> "ok", pos |-> pos, message |-> "none"]

Throw(message) == [kind |-> "throw", pos |-> 0, message |-> message]

\* result.artists?.primary?.map(a => a.name.toLowerCase()) || [], then featured
currentArtists(c) ==
  LET names(l) == IF l = undefinedList THEN <<>>
                  ELSE [k \in 1..Len(l) |-> toLowerCase(l[k])]
  IN  names(c.primary) \o names(c.featured)

\* part_000: author.toLowerCase().split(/[,&]/).map(trim).filter(non-empty)
authorNames(author) ==
  LET parts == split(toLowerCase(author))
  IN  SelectSeq([k \in 1..Len(parts) |-> trim(parts[k])], LAMBDA a : Len(a) > 0)

\* part_001: the same without the filter
authorNamesOld(author) ==
  LET parts == split(toLowerCase(author))
  IN  [k \in 1..Len(parts) |-> trim(parts[k])]

\* part_000: one hint token is found among the artists of the hit
found(authName, artists) ==
  \E k \in 1..Len(artists) :
    LET cleanAuth == toLowerCase(stripSpaces(authName))
        cleanArtist == toLowerCase(stripSpaces(artists[k]))
    IN  includes(cleanArtist, cleanAuth) \/ includes(cleanAuth, cleanArtist)

matchedArtists(names, c) ==
  Cardinality({k \in 1..Len(names) : found(names[k], currentArtists(c))})

\* |result.duration - targetDuration|, or the sentinel for a falsy duration
durationDiffWith(c, targetDuration, sentinel) ==
  IF c.duration = 0 THEN Num(sentinel)
  ELSE IF targetDuration.nan THEN NaN
  ELSE Num(Abs(c.duration - targetDuration.v))

durationDiff(c, targetDuration) == durationDiffWith(c, targetDuration, DurationSentinel)

\* titleMatch, in halves: 2 for 1 and 1 for 0.5
titleMatch(c, title) ==
  IF \/ includes(toLowerCase(c.name), toLowerCase(title))
     \/ includes(toLowerCase(title), toLowerCase(c.name))
  THEN 2 ELSE 1

\* scores are kept multiplied by this, which makes them integers
ScoreScale(n) == 2 * DurationTolerance * Max(n, 1)

\* score = artistMatchPercent * 10 + durationScore * 3 + titleMatch, scaled;
\* NaN when authorNames is empty (0 / 0) or the duration difference is NaN
score(names, c, title, targetDuration) ==
  LET n == Len(names)
      m == matchedArtists(names, c)
      d == durationDiff(c, targetDuration)
  IN  IF n = 0 \/ d.nan THEN NaN
      ELSE Num(ArtistWeight * m * 2 * DurationTolerance
               + DurationWeight * 2 * n * Max(0, DurationTolerance - d.v)
               + titleMatch(c, title) * DurationTolerance * n)

\* eligible with && for ||
eligibleBoth(names, c, targetDuration) ==
  /\ Len(names) > 0 /\ 2 * matchedArtists(names, c) >= Len(names)
  /\ Lt(durationDiff(c, targetDuration), Num(CloseDuration))

\* artistMatchPercent >= 0.5 || durationDiff < 10
eligible(names, c, targetDuration) ==
  \/ Len(names) > 0 /\ 2 * matchedArtists(names, c) >= Len(names)
  \/ Lt(durationDiff(c, targetDuration), Num(CloseDuration))

\* beats with !(score < bestScore): a NaN score replaces the best
beatsUnlessBelow(s, bestScore) == ~Lt(s, bestScore)

\* beats with >= for >: a later hit with the same score replaces the best
beatsOrTies(s, bestScore) == Ge(s, bestScore)

\* score > bestScore
beats(s, bestScore) == Gt(s, bestScore)

\* rejected without the test of the floor
rejectedOnlyIfNone(best, n) == best.pos = 0

\* rejected with the floor one point higher
rejectedBelowSix(best, n) ==
  best.pos = 0 \/ Lt(best.score, Num((ScoreFloor + 1) * ScoreScale(n)))

\* !bestMatch || bestScore < 5
rejected(best, n) ==
  best.pos = 0 \/ Lt(best.score, Num(ScoreFloor * ScoreScale(n)))

\* part_000 lines 80-124: the scan over the hits from position k on;
\* reading the name of a hit that has none throws a TypeError
RECURSIVE scan(_, _, _, _, _, _)
scan(results, k, names, title, targetDuration, best) ==
  IF k > Len(results) THEN best
  ELSE LET c == Catalogue[results[k]]
       IN  IF c.name = undefined
           THEN [pos |-> 0, score |-> best.score, fault |-> TRUE]
           ELSE LET s == score(names, c, title, targetDuration)
                    take == eligible(names, c, targetDuration) /\ beats(s, best.score)
                IN  scan(results, k + 1, names, title, targetDuration,
                         IF take THEN [pos |-> k, score |-> s, fault |-> FALSE]
                         ELSE best)

\* if (author && duration)
strictMatching(author, duration) == Truthy(author) /\ Truthy(duration)

\* part_000 lines 63-135
bestMatch000(results, title, author, duration) ==
  IF strictMatching(author, duration)
  THEN LET names == authorNames(author)
           n == Len(names)
           best == scan(results, 1, names, title, parseInt(duration),
                        [pos |-> 0, score |-> Num(0 - ScoreScale(n)), fault |-> FALSE])
       IN  IF best.fault THEN Throw("TypeError")
           ELSE IF rejected(best, n)
           THEN Throw("No matching song found with provided artist/duration")
           ELSE Ok(best.pos)
  ELSE Ok(1)

\* part_001 lines 82-86: some hint token and some artist contain one another
artistMatch(names, c) ==
  \E a \in 1..Len(names) : \E k \in 1..Len(currentArtists(c)) :
    \/ includes(currentArtists(c)[k], names[a])
    \/ includes(names[a], currentArtists(c)[k])

\* part_001 lines 74-97: reduce without an initial value
RECURSIVE reduce001(_, _, _, _, _)
reduce001(results, k, names, targetDuration, best) ==
  IF k > Len(results) THEN best
  ELSE LET current == Catalogue[results[k]]
           currentDiff == durationDiffWith(current, targetDuration, DurationSentinelOld)
           bestDiff == durationDiffWith(Catalogue[results[best]], targetDuration,
                                        DurationSentinelOld)
           next == IF artistMatch(names, current) /\ Lt(currentDiff, Num(CloseDurationOld))
                   THEN k
                   ELSE IF Lt(currentDiff, bestDiff) THEN k ELSE best
       IN  reduce001(results, k + 1, names, targetDuration, next)

\* part_001 lines 63-98
bestMatch001(results, title, author, duration) ==
  IF Truthy(author) /\ Truthy(duration) /\ Len(results) > 1
  THEN Ok(reduce001(results, 2, authorNamesOld(author), parseInt(duration), 1))
  ELSE Ok(1)

\* audio.js lines 62-67
RECURSIVE reduceAudio(_, _, _, _)
reduceAudio(results, k, targetDuration, best) ==
  IF k > Len(results) THEN best
  ELSE LET current == Catalogue[results[k]]
           bestHit == Catalogue[results[best]]
           next == IF current.duration = 0 \/ bestHit.duration = 0 THEN best
                   ELSE IF Lt(durationDiffWith(current, targetDuration, 0),
                              durationDiffWith(bestHit, targetDuration, 0))
                        THEN k ELSE best
       IN  reduceAudio(results, k + 1, targetDuration, next)

\* audio.js lines 57-68
bestMatchAudio(results, title, author, duration) ==
  IF Truthy(duration) /\ Len(results) > 1
  THEN Ok(reduceAudio(results, 2, parseInt(duration), 1))
  ELSE Ok(1)

\* what searchJioSaavn does with a parsed body: the position of bestMatch in
\* data.data.results, or the error it throws
selectBest(v, body, title, author, duration) ==
  IF ~body.success \/ Len(body.results) = 0
  THEN Throw("No results found in JioSaavn")
  ELSE CASE v = "part_000" -> bestMatch000(body.results, title, author, duration)
         [] v = "part_001" -> bestMatch001(body.results, title, author, duration)
         [] v = "audio.js" -> bestMatchAudio(body.results, title, author, duration)

(* ------------------------------------------------------------------ *)
(* searchJioSaavn: the result derived from bestMatch                    *)
(* ------------------------------------------------------------------ *)

\* a list the code reads through `x && x.length > 0` or `x?.map(..) || []`
present(list) == IF list = undefinedList THEN <<>> ELSE list

null == <<"null">>

\* the url of the last entry of a list of variants, or null
lastUrl(list) ==
  IF Len(present(list)) > 0 THEN present(list)[Len(present(list))] ELSE null

RECURSIVE join(_)
\* names.join(', ')
join(names) ==
  IF Len(names) = 0 THEN <<>>
  ELSE IF Len(names) = 1 THEN names[1]
  ELSE names[1] \o <<",", " ">> \o join(Tail(names))

Unknown == <<"U", "n", "k", "n", "o", "w", "n">>

\* artists of the two later versions: primary then featured, or 'Unknown'
artists(c) ==
  LET allArtistNames == present(c.primary) \o present(c.featured)
  IN  IF Len(allArtistNames) > 0 THEN join(allArtistNames) ELSE Unknown

\* artists of src/api/audio.js: primary, else artists.all, else 'Unknown'
artistsAudio(c, m) ==
  IF c.primary # undefinedList /\ join(c.primary) # <<>> THEN join(c.primary)
  ELSE IF m.all # undefinedList /\ join(m.all) # <<>> THEN join(m.all)
  ELSE Unknown

\* the object searchJioSaavn returns for the hit at position i of Catalogue
saavnResult(v, i) ==
  [ title |-> Catalogue[i].name,
    artist |-> IF v = "audio.js" THEN artistsAudio(Catalogue[i], CatalogueMedia[i])
               ELSE artists(Catalogue[i]),
    duration |-> Catalogue[i].duration,
    thumbnail |-> lastUrl(CatalogueMedia[i].image),
    downloadUrl |-> lastUrl(CatalogueMedia[i].downloadUrl) ]

(* ------------------------------------------------------------------ *)
(* State                                                                *)
(* ------------------------------------------------------------------ *)

VARIABLES
  variant,     \* which version of the function serves the request
  req,         \* the request: method and query parameters
  pc,          \* where handler is: "start", the strategy it awaits in, "done"
  inst,        \* position of the instance being tried in the pool's list
  fetchState,  \* the outbound call in flight: "idle", "pending" (awaiting
               \* fetch), "body" (awaiting response.json())
  timers,      \* armed setTimeout timers, named by the call they abort
  data,        \* data.data.results of the metadata-search answer last
               \* handled; <<>> once a later answer is handled
  bestMatch,   \* position in data of the hit searchJioSaavn returned, or 0
  caught,      \* message of the error handler caught last
  log,         \* console: "ok" or "failed" for every call that has ended
  failure,     \* console: message of the error logged last for a call
  calls,       \* every fetch issued so far, in order
  entered,     \* the strategies handler called so far, in order
  result,      \* the object searchJioSaavn returned, spread into the body of
               \* the 200 response; <<>> when it has returned none
  sent         \* the responses sent so far, in order

vars == << variant, req, pc, inst, fetchState, timers, data, bestMatch, caught,
           log, failure, calls, entered, result, sent >>

Methods == {"GET", "OPTIONS", "POST"}

Ids == {undefined, <<>>, <<"v">>}

Titles == {undefined, <<>>, <<"A", "b">>}

Authors == { undefined, <<>>, <<"X">>, <<"x", ",", " ", "Y">>,
             <<"x", ",", "y", "&", "z">>, <<",">> }

DurationHints == {undefined, <<>>, <<"x">>, <<"1", "0", "0">>}

Requests ==
  [ method : Methods,
    query : [id : Ids, title : Titles, author : Authors, duration : DurationHints] ]

\* HTTP statuses an upstream answers with
Statuses == {200, 404, 500}

\* response.ok
ok(status) == status >= 200 /\ status <= 299

SaavnTimeout == 10000

InstanceTimeout == 8000

\* Pool with the two lists taken for one another
PoolSwapped(s) == IF s = "stremio" THEN INVIDIOUS_INSTANCES ELSE STREMIO_INSTANCES(variant)

Pool(s) == IF s = "stremio" THEN STREMIO_INSTANCES(variant) ELSE INVIDIOUS_INSTANCES

\* Call with the query of the search built from the title alone
CallWithoutAuthor(s, k) ==
  IF s = "saavn"
  THEN [ strategy |-> s, host |-> SAAVN_BASE_URL, timeout |-> SaavnTimeout,
         key |-> req.query.title ]
  ELSE [ strategy |-> s, host |-> Pool(s)[k], timeout |-> InstanceTimeout,
         key |-> req.query.id ]

\* the fetch that strategy s issues for the k-th entry of its list
Call(s, k) ==
  IF s = "saavn"
  THEN [ strategy |-> s, host |-> SAAVN_BASE_URL, timeout |-> SaavnTimeout,
         key |-> IF Truthy(req.query.author)
                 THEN req.query.title \o <<" ">> \o req.query.author
                 ELSE req.query.title ]
  ELSE [ strategy |-> s, host |-> Pool(s)[k], timeout |-> InstanceTimeout,
         key |-> req.query.id ]

NoAttempts == [saavn |-> "none", stremio |-> "none", invidious |-> "none"]

\* a response: its status and the fields of its JSON body ("none": not there)
Response(status, success, source, instance, error, attempts) ==
  [ status |-> status, success |-> success, source |-> source,
    instance |-> instance, error |-> error, attempts |-> attempts ]

Init ==
  /\ variant \in Variants
  /\ req \in Requests
  /\ pc = "start"
  /\ inst = 0
  /\ fetchState = "idle"
  /\ timers = {}
  /\ data = <<>>
  /\ bestMatch = 0
  /\ caught = "none"
  /\ log = <<>>
  /\ failure = "none"
  /\ calls = <<>>
  /\ entered = <<>>
  /\ result = <<>>
  /\ sent = <<>>

(* ------------------------------------------------------------------ *)
(* fetchWithTimeout                                                     *)
(* ------------------------------------------------------------------ *)

\* fetchWithTimeout without its clearTimeout(id): every timer stays armed
clearTimeoutForgotten == timers

\* clearTimeout(id) for the call in flight, which is the last one issued
clearTimeout == timers \ {Len(calls)}

\* Issue that starts a second fetch of the same url next to the first one
IssueTwice(s, k, t) ==
  /\ fetchState' = "pending"
  /\ calls' = calls \o << Call(s, k), Call(s, k) >>
  /\ timers' = t \cup {Len(calls) + 2}

\* const id = setTimeout(...); fetch(url, {signal}): t is the set of timers
\* left armed by the step that issues the call
Issue(s, k, t) ==
  /\ fetchState' = "pending"
  /\ calls' = Append(calls, Call(s, k))
  /\ timers' = t \cup {Len(calls) + 1}

(* ------------------------------------------------------------------ *)
(* handler and the adapters: what runs between two awaits               *)
(* ------------------------------------------------------------------ *)

\* Send without the `return`: the response goes out and handler runs on
SendWithoutReturn(r, t) ==
  /\ sent' = Append(sent, r)
  /\ pc' = pc
  /\ fetchState' = fetchState
  /\ timers' = t
  /\ UNCHANGED << calls, entered, inst >>

\* res.status(..).json(..) / .end(), and handler returns
Send(r, t) ==
  /\ sent' = Append(sent, r)
  /\ pc' = "done"
  /\ fetchState' = "idle"
  /\ timers' = t
  /\ UNCHANGED << calls, entered, inst >>

\* handler calls the adapter of strategy s, which issues its first fetch
Enter(s, t) ==
  /\ entered' = Append(entered, s)
  /\ pc' = s
  /\ inst' = 1
  /\ Issue(s, 1, t)
  /\ UNCHANGED sent

\* `continue` in the for loop of an instance adapter
NextInstance(s, t) ==
  /\ pc' = s
  /\ inst' = inst + 1
  /\ Issue(s, inst + 1, t)
  /\ UNCHANGED << entered, sent >>

\* the body of the 404 response
Exhausted ==
  Response(404, "false", "none", "none", "Could not fetch audio from any source",
           [ saavn |-> IF Truthy(req.query.title) THEN "failed" ELSE "skipped",
             stremio |-> "failed", invidious |-> "failed" ])

\* Following with the Stremio block left out after a failed search
FollowingSkipsStremio(s) ==
  CASE s = "saavn" -> "invidious"
    [] s = "stremio" -> "invidious"
    [] OTHER -> "none"

\* the strategy after s in handler, or "none"
Following(s) ==
  CASE s = "saavn" -> "stremio"
    [] s = "stremio" -> "invidious"
    [] OTHER -> "none"

\* the adapter of strategy s threw: handler's catch block and what follows it
StrategyFailed(s, message, t) ==
  /\ caught' = message
  /\ log' = Append(log, "failed")
  /\ IF Following(s) = "none" THEN Send(Exhausted, t) ELSE Enter(Following(s), t)

\* the adapter of strategy s returned: handler answers 200
StrategySucceeded(s, instance, t) ==
  /\ Send(Response(200, "true", s, instance, "none", NoAttempts), t)
  /\ log' = Append(log, "ok")
  /\ UNCHANGED caught

\* the instance the adapter names in its result
InstanceField(s, k) ==
  IF s = "invidious" THEN "https://" \o Pool(s)[k] ELSE Pool(s)[k]

\* CallFailed with `throw` in place of `continue`: the first failing instance
\* ends its adapter
CallFailedEndsAdapter(message, t) ==
  /\ failure' = message
  /\ StrategyFailed(pc, IF pc = "saavn" THEN message ELSE "All instances failed", t)

\* the call in flight failed (not ok, rejected, aborted, unparseable body)
CallFailed(message, t) ==
  /\ failure' = message
  /\ IF pc = "saavn" THEN StrategyFailed("saavn", message, t)
     ELSE IF inst < Len(Pool(pc))
          THEN NextInstance(pc, t) /\ log' = Append(log, "failed") /\ UNCHANGED caught
          ELSE StrategyFailed(pc, "All instances failed", t)

(* ------------------------------------------------------------------ *)
(* Actions                                                              *)
(* ------------------------------------------------------------------ *)

\* Gate without the test of id
GateWithoutIdCheck(method, id) ==
  IF method = "OPTIONS" THEN "preflight"
  ELSE IF method # "GET" THEN "not allowed"
  ELSE "resolve"

\* lines 241-255 of handler: what the method and the id lead to
Gate(method, id) ==
  IF method = "OPTIONS" THEN "preflight"
  ELSE IF method # "GET" THEN "not allowed"
  ELSE IF ~Truthy(id) THEN "missing id"
  ELSE "resolve"

\* if (req.method === 'OPTIONS') return res.status(200).end()
Preflight ==
  /\ pc = "start"
  /\ Gate(req.method, req.query.id) = "preflight"
  /\ Send(Response(200, "none", "none", "none", "none", NoAttempts), timers)
  /\ UNCHANGED << variant, req, result, data, bestMatch, caught, log, failure >>

\* if (req.method !== 'GET') return res.status(405).json(..)
MethodNotAllowed ==
  /\ pc = "start"
  /\ Gate(req.method, req.query.id) = "not allowed"
  /\ Send(Response(405, "none", "none", "none", "Method not allowed", NoAttempts), timers)
  /\ UNCHANGED << variant, req, result, data, bestMatch, caught, log, failure >>

\* if (!id) return res.status(400).json(..)
MissingId ==
  /\ pc = "start"
  /\ Gate(req.method, req.query.id) = "missing id"
  /\ Send(Response(400, "none", "none", "none", "Missing required parameter: id",
                   NoAttempts), timers)
  /\ UNCHANGED << variant, req, result, data, bestMatch, caught, log, failure >>

\* FirstStrategy without the test of title
FirstStrategyAlwaysSaavn(title) == "saavn"

\* the strategy handler calls first: if (title) ... else skip
FirstStrategy(title) == IF Truthy(title) THEN "saavn" ELSE "stremio"

\* a valid request: handler calls its first strategy
Resolve ==
  /\ pc = "start"
  /\ Gate(req.method, req.query.id) = "resolve"
  /\ Enter(FirstStrategy(req.query.title), timers)
  /\ UNCHANGED << variant, req, result, data, bestMatch, caught, log, failure >>

\* fetch resolves with a response that is not ok
FetchNotOk ==
  /\ fetchState = "pending"
  /\ \E status \in Statuses :
       /\ ~ok(status)
       /\ CallFailed("HTTP error", clearTimeout)
  /\ data' = <<>>
  /\ bestMatch' = 0
  /\ UNCHANGED << variant, req, result >>

\* fetch resolves with an ok response: the adapter awaits response.json()
FetchOk ==
  /\ fetchState = "pending"
  /\ \E status \in Statuses : ok(status)
  /\ fetchState' = "body"
  /\ timers' = clearTimeout
  /\ data' = <<>>
  /\ bestMatch' = 0
  /\ UNCHANGED << variant, req, result, pc, inst, caught, log, failure, calls, entered, sent >>

\* fetch rejects with a network error
FetchRejects ==
  /\ fetchState = "pending"
  /\ CallFailed("fetch failed", clearTimeout)
  /\ data' = <<>>
  /\ bestMatch' = 0
  /\ UNCHANGED << variant, req, result >>

\* a timer fires: controller.abort() rejects the fetch, or the reading of the
\* body, of the call the timer belongs to; it does nothing when that call is
\* over
TimerFires ==
  /\ \E id \in timers :
       IF id = Len(calls) /\ fetchState \in {"pending", "body"}
       THEN /\ CallFailed("This operation was aborted", clearTimeout \ {id})
            /\ data' = <<>>
            /\ bestMatch' = 0
       ELSE /\ timers' = timers \ {id}
            /\ UNCHANGED << pc, inst, fetchState, data, bestMatch, caught, log,
                            failure, calls, entered, sent >>
  /\ UNCHANGED << variant, req, result >>

\* JsonRejects with response.json() awaited outside the try block of the
\* adapter: the rejection ends the adapter
JsonRejectsUncaught ==
  /\ fetchState = "body"
  /\ failure' = "Unexpected token"
  /\ StrategyFailed(pc, "Unexpected token", timers)
  /\ data' = <<>>
  /\ bestMatch' = 0
  /\ UNCHANGED << variant, req, result >>

\* response.json() rejects: the body is not JSON
JsonRejects ==
  /\ fetchState = "body"
  /\ CallFailed("Unexpected token", timers)
  /\ data' = <<>>
  /\ bestMatch' = 0
  /\ UNCHANGED << variant, req, result >>

\* response.json() resolves in an instance adapter: the adapter returns
InstanceAnswers ==
  /\ fetchState = "body"
  /\ pc \in {"stremio", "invidious"}
  /\ StrategySucceeded(pc, InstanceField(pc, inst), timers)
  /\ data' = <<>>
  /\ bestMatch' = 0
  /\ UNCHANGED << variant, req, result, failure >>

\* response.json() resolves in searchJioSaavn: the rest of searchJioSaavn
SaavnAnswers ==
  /\ fetchState = "body"
  /\ pc = "saavn"
  /\ \E body \in SaavnBodies :
       LET r == selectBest(variant, body, req.query.title, req.query.author,
                           req.query.duration)
       IN  /\ data' = body.results
           /\ bestMatch' = r.pos
           /\ IF r.kind = "ok"
              THEN /\ StrategySucceeded("saavn", "none", timers)
                   /\ result' = << saavnResult(variant, body.results[r.pos]) >>
                   /\ UNCHANGED failure
              ELSE /\ StrategyFailed("saavn", r.message, timers)
                   /\ failure' = r.message
                   /\ UNCHANGED result
  /\ UNCHANGED << variant, req >>

Next ==
  \/ Preflight
  \/ MethodNotAllowed
  \/ MissingId
  \/ Resolve
  \/ FetchNotOk
  \/ FetchOk
  \/ FetchRejects
  \/ TimerFires
  \/ JsonRejects
  \/ InstanceAnswers
  \/ SaavnAnswers

Spec == Init /\ [][Next]_vars

(* ------------------------------------------------------------------ *)
(* Claims                                                               *)
(* ------------------------------------------------------------------ *)

Last(q) == q[Len(q)]

ValidRequest == req.method = "GET" /\ Truthy(req.query.id)

Rank(s) == CASE s = "saavn" -> 1 [] s = "stremio" -> 2 [] s = "invidious" -> 3

StrategyOrders ==
  { <<>>, <<"saavn">>, <<"saavn", "stremio">>, <<"saavn", "stremio", "invidious">>,
    <<"stremio">>, <<"stremio", "invidious">> }

\* the response of a strategy that succeeded
IsSuccessOf(r, s) == r.status = 200 /\ r.success = "true" /\ r.source = s

\* C1: fallback monotonicity.  For a GET request with an id: the strategies
\* are entered in the order search, Stremio, Invidious, none twice and none
\* after a later one; the search is entered first exactly when a title is
\* given, and otherwise Stremio is; a strategy that ends without a success
\* response is followed at once by the first call of the next strategy.
C1_FallbackMonotonic ==
  [][ /\ entered' \in StrategyOrders
      /\ \A j \in 1..Len(calls'), k \in 1..Len(calls') :
           j < k => Rank(calls'[j].strategy) <= Rank(calls'[k].strategy)
      /\ (pc = "start" /\ ValidRequest)
           => /\ Truthy(req.query.title) => entered' = <<"saavn">>
              /\ ~Truthy(req.query.title)
                   => entered' = <<"stremio">> /\ calls' = <<Call("stremio", 1)>>
      /\ (pc = "saavn" /\ pc' # "saavn")
           => \/ Len(sent') = 1 /\ IsSuccessOf(sent'[1], "saavn")
              \/ /\ pc' = "stremio"
                 /\ entered' = Append(entered, "stremio")
                 /\ calls' = Append(calls, Call("stremio", 1))
                 /\ sent' = <<>>
      /\ (pc = "stremio" /\ pc' # "stremio")
           => \/ Len(sent') = 1 /\ IsSuccessOf(sent'[1], "stremio")
              \/ /\ pc' = "invidious"
                 /\ entered' = Append(entered, "invidious")
                 /\ calls' = Append(calls, Call("invidious", 1))
                 /\ sent' = <<>>
    ]_vars

C1_Witness ==
  /\ pc = "done"
  /\ entered = <<"saavn", "stremio", "invidious">>
  /\ Last(sent).status = 404

\* C2: the first success ends the request.  At most one response is sent;
\* once it is sent no call is issued and none is in flight; a search that
\* returned a hit is answered by the 200 response of source saavn; a 200
\* response to a GET carries success:true and the source of the strategy
\* whose answer was being read, and is sent without a further call.
C2_FirstSuccessTerminates ==
  [][ /\ Len(sent') <= 1
      /\ sent # <<>> => calls' = calls /\ sent' = sent
      /\ sent' # <<>> => pc' = "done" /\ fetchState' = "idle" /\ timers' = {}
      /\ bestMatch' > 0 => sent' # <<>> /\ IsSuccessOf(sent'[1], "saavn")
      /\ (sent = <<>> /\ sent' # <<>> /\ sent'[1].status = 200 /\ req.method = "GET")
           => /\ fetchState = "body"
              /\ IsSuccessOf(sent'[1], pc)
              /\ calls' = calls
              /\ Last(log') = "ok"
    ]_vars

C2_Witness ==
  /\ pc = "done"
  /\ sent = <<Response(200, "true", "stremio", STREMIO_INSTANCES(variant)[2], "none",
                       NoAttempts)>>
  /\ Len(calls) = 3

\* the hosts of the calls of strategy s, in order
HostsCalled(s) ==
  LET own == SelectSeq(calls, LAMBDA c : c.strategy = s)
  IN  [k \in 1..Len(own) |-> own[k].host]

\* C3: terminal failure.  A GET request with an id ends in 404 with
\* success:false exactly when every call it made failed; then every instance
\* of both pools was called, in list order, the attempts map records both
\* pools as failed, and records the search as failed when a title was given
\* (the search was then called and failed).
C3_TerminalFailure ==
  (pc = "done" /\ ValidRequest)
    => /\ Len(sent) = 1
       /\ Len(log) = Len(calls)
       /\ sent[1].status = 404 <=> \A k \in 1..Len(log) : log[k] = "failed"
       /\ sent[1].status = 404
            => /\ sent[1].success = "false"
               /\ HostsCalled("stremio") = STREMIO_INSTANCES(variant)
               /\ HostsCalled("invidious") = INVIDIOUS_INSTANCES
               /\ sent[1].attempts.stremio = "failed"
               /\ sent[1].attempts.invidious = "failed"
               /\ Truthy(req.query.title)
                    => sent[1].attempts.saavn = "failed" /\ calls[1].strategy = "saavn"

C3_Witness ==
  /\ pc = "done"
  /\ sent[1].status = 404
  /\ sent[1].attempts = [saavn |-> "failed", stremio |-> "failed", invidious |-> "failed"]

\* C4: without a title (absent or empty) no call goes to the metadata
\* search: the calls go to the Stremio instances and then to the Invidious
\* instances, and a 404 records saavn as skipped.
C4_NoTitleSkipsSearch ==
  ~Truthy(req.query.title)
    => /\ \A k \in 1..Len(calls) : calls[k].strategy \in {"stremio", "invidious"}
       /\ \A j \in 1..Len(calls), k \in 1..Len(calls) :
            (j < k /\ calls[j].strategy = "invidious") => calls[k].strategy = "invidious"
       /\ bestMatch = 0
       /\ (sent # <<>> /\ sent[1].status = 404) => sent[1].attempts.saavn = "skipped"

C4_Witness ==
  /\ req.query.title = <<>>
  /\ sent # <<>>
  /\ sent[1].status = 404
  /\ Len(calls) = Len(STREMIO_INSTANCES(variant)) + Len(INVIDIOUS_INSTANCES)

\* C5: the request gate.  A call is issued only for a GET with a non-empty
\* id; every other request is answered at once: a GET without id by 400
\* whatever the other parameters are, a method other than GET and OPTIONS
\* by 405, OPTIONS by 200 without a body.
C5_RequestGate ==
  /\ calls # <<>> => ValidRequest
  /\ (pc # "start" /\ ~ValidRequest)
       => /\ pc = "done"
          /\ Len(sent) = 1
          /\ (req.method = "GET")
               => sent[1] = Response(400, "none", "none", "none",
                                     "Missing required parameter: id", NoAttempts)
          /\ (req.method \notin {"GET", "OPTIONS"})
               => sent[1] = Response(405, "none", "none", "none",
                                     "Method not allowed", NoAttempts)
          /\ (req.method = "OPTIONS")
               => sent[1] = Response(200, "none", "none", "none", "none", NoAttempts)

C5_Witness ==
  /\ pc = "done"
  /\ req.method = "GET"
  /\ req.query.id = <<>>
  /\ Truthy(req.query.title)
  /\ Truthy(req.query.author)
  /\ Truthy(req.query.duration)
  /\ sent[1].status = 400

(* ------------------------------------------------------------------ *)
(* Claims about the choice of bestMatch.  The terms of the claims are   *)
(* written out here from their wording, apart from the operators of     *)
(* the model that decide the choice.                                    *)
(* ------------------------------------------------------------------ *)

\* both hints are there: strict scoring
Strict == Truthy(req.query.author) /\ Truthy(req.query.duration)

\* the state right after searchJioSaavn handled an answer that holds hits
Answered == data # <<>>

HitAt(k) == Catalogue[data[k]]

Tokens == authorNames(req.query.author)

\* artistMatchRatio >= 0.5
RatioAtLeastHalf(k) ==
  Len(Tokens) > 0 /\ 2 * matchedArtists(Tokens, HitAt(k)) >= Len(Tokens)

\* durationDiffSeconds, 999 for a missing duration
DiffSeconds(k) ==
  IF HitAt(k).duration = 0 THEN Num(999)
  ELSE IF parseInt(req.query.duration).nan THEN NaN
  ELSE Num(Abs(HitAt(k).duration - parseInt(req.query.duration).v))

EligibleHit(k) == RatioAtLeastHalf(k) \/ Lt(DiffSeconds(k), Num(10))

\* 10 * artistMatchRatio + 3 * max(0, 1 - diff / 60) + titleScore, times
\* 120 * (number of tokens); NaN where the ratio or the difference is
Composite(k) ==
  IF Len(Tokens) = 0 \/ DiffSeconds(k).nan THEN NaN
  ELSE Num(1200 * matchedArtists(Tokens, HitAt(k))
           + 6 * Len(Tokens) * Max(0, 60 - DiffSeconds(k).v)
           + (IF titleMatch(HitAt(k), req.query.title) = 2 THEN 120 ELSE 60) * Len(Tokens))

\* the composite 5.0 on the same scale
Floor == Num(5 * 120 * Len(Tokens))

NoConfidentMatch == "No matching song found with provided artist/duration"

AllNamed == \A k \in 1..Len(data) : HitAt(k).name # undefined

\* the author hint holds a name and the duration hint is an integer
WellFormedHints == Len(Tokens) > 0 /\ ~parseInt(req.query.duration).nan

\* C6: scorer bypass.  When the search answers with hits and the author hint
\* or the duration hint is absent, searchJioSaavn returns the first hit and
\* handler answers with it.
C6_ScorerBypass ==
  (variant \in {"part_000", "audio.js"} /\ Answered /\ ~Strict)
    => bestMatch = 1 /\ Len(sent) = 1 /\ IsSuccessOf(sent[1], "saavn")

\* C7: eligibility.  In strict scoring (here with an author hint that holds
\* a name and an integer duration hint) the hit searchJioSaavn returns has
\* artistMatchRatio >= 0.5 or durationDiffSeconds < 10.
C7_SelectedIsEligible ==
  (variant \in {"part_000", "part_001"} /\ Strict /\ WellFormedHints /\ bestMatch > 0)
    => EligibleHit(bestMatch)

\* C8: best-of selection (part_000).  In strict scoring the hit returned is
\* eligible, no eligible hit has a greater composite, and no eligible hit
\* before it in the list has an equal one (comparisons as JavaScript makes
\* them: a NaN composite is neither greater than nor equal to any other).
C8_BestOfEligible ==
  (variant = "part_000" /\ Strict /\ bestMatch > 0)
    => /\ EligibleHit(bestMatch)
       /\ \A k \in 1..Len(data) :
            EligibleHit(k)
              => /\ ~Gt(Composite(k), Composite(bestMatch))
                 /\ k < bestMatch => ~Eq(Composite(k), Composite(bestMatch))

C8_Witness ==
  /\ variant = "part_000"
  /\ Strict
  /\ bestMatch = 1
  /\ Len(data) = 2
  /\ EligibleHit(2)
  /\ Eq(Composite(2), Composite(1))

\* C9: confidence floor.  In strict scoring (here with an author hint that
\* holds a name and an integer duration hint), when the answer holds hits and
\* no eligible hit has a composite of 5.0 or more, searchJioSaavn fails,
\* nothing is answered from the search and the first Stremio call is issued.
C9_ConfidenceFloor ==
  ( /\ variant \in {"part_000", "part_001"}
    /\ Strict
    /\ WellFormedHints
    /\ Answered
    /\ \A k \in 1..Len(data) : EligibleHit(k) => ~Ge(Composite(k), Floor) )
    => /\ bestMatch = 0
       /\ sent = <<>>
       /\ pc = "stremio"
       /\ Last(calls) = Call("stremio", 1)
       /\ AllNamed => caught = NoConfidentMatch

\* C10: no rejection of a confident match.  In strict scoring, when some
\* hit has artistMatchRatio >= 0.5 and a composite of 5.0 or more,
\* searchJioSaavn does not fail with NoConfidentMatch, and it returns a hit
\* when every hit of the list has a name.
C10_ConfidentMatchKept ==
  ( /\ Strict
    /\ Answered
    /\ \E k \in 1..Len(data) : RatioAtLeastHalf(k) /\ Ge(Composite(k), Floor) )
    => /\ bestMatch = 0 => caught = "TypeError"
       /\ AllNamed => bestMatch > 0 /\ IsSuccessOf(sent[1], "saavn")

C10_Witness ==
  /\ variant = "part_000"
  /\ Strict
  /\ Answered
  /\ bestMatch > 0
  /\ RatioAtLeastHalf(bestMatch)
  /\ Composite(bestMatch) = Num(Floor.v + 60 * Len(Tokens))
  /\ \E k \in 1..Len(data) : ~EligibleHit(k)

(* ------------------------------------------------------------------ *)
(* Claims about the instance adapters                                   *)
(* ------------------------------------------------------------------ *)

InstancePools == {"stremio", "invidious"}

\* the list of hosts an instance adapter iterates over
InstanceList(s) ==
  IF s = "stremio" THEN STREMIO_INSTANCES(variant) ELSE INVIDIOUS_INSTANCES

\* the instance field of the result for the k-th host of the list of s
NamedInstance(s, k) ==
  IF s = "stremio" THEN InstanceList(s)[k] ELSE "https://" \o InstanceList(s)[k]

\* C11: instance order and short-circuit.  The hosts an adapter has called
\* are a prefix of its list, in list order; a 200 response of an adapter
\* names the host called last, every call before that one failed, that one
\* succeeded, and no call follows it.
C11_InstanceOrder ==
  \A s \in InstancePools :
    LET hosts == HostsCalled(s)
        n == Len(hosts)
    IN  /\ n <= Len(InstanceList(s))
        /\ \A k \in 1..n : hosts[k] = InstanceList(s)[k]
        /\ (sent # <<>> /\ IsSuccessOf(sent[1], s))
             => /\ n >= 1
                /\ sent[1].instance = NamedInstance(s, n)
                /\ Last(calls).strategy = s
                /\ Len(log) = Len(calls)
                /\ Last(log) = "ok"
                /\ \A k \in 1..(Len(calls) - 1) : log[k] = "failed"

C11_Witness ==
  /\ pc = "done"
  /\ IsSuccessOf(sent[1], "invidious")
  /\ sent[1].instance = "https://" \o INVIDIOUS_INSTANCES[3]
  /\ Len(HostsCalled("invidious")) = 3

\* C12: no retry of an instance.  Within one request no two calls go to the
\* same host.
C12_NoRetry ==
  \A j \in 1..Len(calls), k \in 1..Len(calls) :
    j < k => calls[j].host # calls[k].host

\* the messages of the four ways a call to an instance fails
FailureKinds ==
  {"HTTP error", "fetch failed", "This operation was aborted", "Unexpected token"}

\* the call an adapter issues for the k-th host of its list
InstanceCall(s, k) ==
  [ strategy |-> s, host |-> InstanceList(s)[k], timeout |-> 8000,
    key |-> req.query.id ]

\* C13: a failing instance is skipped, never fatal.  While an instance
\* adapter waits for a call, the only steps are the arrival of an ok status
\* line, the success of the adapter, and a failure of one of four kinds (no
\* ok status, network error, abort by the 8000 ms timer, unparseable body);
\* after a failure the adapter calls the next host of its list and nothing
\* is sent, or, when the failing host was the last of the list, the adapter
\* reports that all instances failed, and then every host of the list has
\* been called and every call to one has failed.
C13_FailingInstanceSkipped ==
  [][ (pc \in InstancePools /\ fetchState \in {"pending", "body"})
        => \/ /\ fetchState = "pending"
              /\ fetchState' = "body"
              /\ calls' = calls /\ log' = log /\ sent' = sent /\ pc' = pc
           \/ /\ fetchState = "body"
              /\ sent' # <<>> /\ IsSuccessOf(sent'[1], pc)
           \/ /\ log' = Append(log, "failed")
              /\ failure' \in FailureKinds
              /\ Last(calls).timeout = 8000
              /\ IF inst < Len(InstanceList(pc))
                 THEN /\ pc' = pc
                      /\ inst' = inst + 1
                      /\ calls' = Append(calls, InstanceCall(pc, inst + 1))
                      /\ fetchState' = "pending"
                      /\ sent' = sent
                      /\ caught' = caught
                 ELSE /\ pc' # pc
                      /\ caught' = "All instances failed"
                      /\ HostsCalled(pc) = InstanceList(pc)
                      /\ \A k \in 1..Len(calls) :
                           calls[k].strategy = pc => log'[k] = "failed"
    ]_vars

\* a call was aborted by its timer and the adapter has called the next host
C13_Witness ==
  /\ pc = "stremio"
  /\ failure = "This operation was aborted"
  /\ inst = 2
  /\ fetchState = "pending"
  /\ log = <<"failed">>

\* C14: bounded waiting.  Whenever the request waits on an upstream, for
\* the status line of a call or for the end of its body, the timer of that
\* call is armed.
C14_EveryWaitHasTimer ==
  fetchState \in {"pending", "body"} => Len(calls) \in timers

\* the calls whose fetchWithTimeout has returned or thrown
Settled ==
  {k \in 1..Len(calls) : k < Len(calls) \/ fetchState # "pending"}

\* C15: timer hygiene.  No timer of a settled call is armed, and the only
\* timer that can be armed is the one of the call awaiting its status line;
\* a step that aborts a call finds that call awaiting its status line with
\* its own timer armed, and leaves no timer of it behind.
C15_TimerHygiene ==
  /\ [](timers \cap Settled = {} /\ timers \subseteq 1..Len(calls))
  /\ [][ (failure' = "This operation was aborted" /\ log' = Append(log, "failed"))
           => /\ fetchState = "pending"
              /\ Len(calls) \in timers
              /\ Len(calls) \notin timers'
       ]_vars

\* a first call was aborted, a second one has its status line, no timer is
\* armed
C15_Witness ==
  /\ Len(calls) = 2
  /\ failure = "This operation was aborted"
  /\ fetchState = "body"
  /\ timers = {}

\* the number of calls issued and not yet ended
InFlight == Len(calls) - Len(log)

\* C16: strictly sequential.  At most one call is in flight, one is in
\* flight exactly while the request awaits a status line or a body, and a
\* step that issues a call issues one call, after every earlier call ended.
C16_Sequential ==
  /\ [](/\ InFlight \in {0, 1}
        /\ InFlight = 1 <=> fetchState \in {"pending", "body"})
  /\ [][ calls' # calls
           => /\ Len(calls') = Len(calls) + 1
              /\ Len(log') = Len(calls)
              /\ \A k \in 1..Len(calls) : calls'[k] = calls[k]
       ]_vars

\* a third call is in flight after two calls that ended
C16_Witness ==
  /\ Len(calls) = 3
  /\ Len(log) = 2
  /\ fetchState = "pending"

(* ------------------------------------------------------------------ *)
(* Claims about faults and about the search call                        *)
(* ------------------------------------------------------------------ *)

\* C17: unanticipated faults.  The step in which scoring raises a TypeError
\* (a hit without a name) answers the request with status 500 and
\* success:false, and issues no call.
C17_FaultAnswered500 ==
  [][ (failure' = "TypeError" /\ log' = Append(log, "failed"))
        => /\ sent' # <<>>
           /\ sent'[1].status = 500
           /\ sent'[1].success = "false"
           /\ calls' = calls
    ]_vars

\* the calls that went to the metadata search
SearchCalls == SelectSeq(calls, LAMBDA c : c.strategy = "saavn")

\* the author hint is there: neither absent nor empty
AuthorGiven == req.query.author # undefined /\ req.query.author # <<>>

\* C20: one search call.  A request that entered the metadata search has
\* issued exactly one call to it, as its first call, and a request that did
\* not has issued none; the query of that call is the title followed by a
\* space and the author when an author is given, and the title alone when
\* the author is absent or empty.
C20_OneSearchCall ==
  /\ Len(SearchCalls) = IF \E k \in 1..Len(entered) : entered[k] = "saavn" THEN 1 ELSE 0
  /\ Len(SearchCalls) = 1
       => /\ calls[1].strategy = "saavn"
          /\ calls[1].host = SAAVN_BASE_URL
          /\ calls[1].timeout = 10000
          /\ calls[1].key = IF AuthorGiven
                            THEN req.query.title \o <<" ">> \o req.query.author
                            ELSE req.query.title

\* a request with an author whose search and every instance failed
C20_Witness ==
  /\ pc = "done"
  /\ sent[1].status = 404
  /\ AuthorGiven
  /\ Len(SearchCalls) = 1
  /\ Len(calls[1].key) = Len(req.query.title) + 1 + Len(req.query.author)

(* ------------------------------------------------------------------ *)
(* Claims about the result and about strict scoring                     *)
(* ------------------------------------------------------------------ *)

\* the hit searchJioSaavn selected, and its other fields
Selected == Catalogue[data[bestMatch]]

SelectedMedia == CatalogueMedia[data[bestMatch]]

\* a list of the hit, empty when the hit does not have it
ListOf(l) == IF l = << undefined >> THEN <<>> ELSE l

RECURSIVE CommaJoined(_, _)
\* the first k names of a list, separated by a comma and a space
CommaJoined(names, k) ==
  IF k = 0 THEN <<>>
  ELSE IF k = 1 THEN names[1]
  ELSE CommaJoined(names, k - 1) \o <<",", " ">> \o names[k]

\* C21: result derivation.  The result of a successful search carries, as
\* download URL, the url of the last entry of the download variants of the
\* selected hit; as thumbnail, the url of the last entry of its image
\* variants; as artist, the names of its primary artists followed by those
\* of its featured artists, comma-joined, or "Unknown" when it has neither.
C21_ResultDerivation ==
  result # <<>>
    => LET downloads == ListOf(SelectedMedia.downloadUrl)
           images == ListOf(SelectedMedia.image)
           names == ListOf(Selected.primary) \o ListOf(Selected.featured)
       IN  /\ downloads # <<>> => result[1].downloadUrl = downloads[Len(downloads)]
           /\ images # <<>> => result[1].thumbnail = images[Len(images)]
           /\ result[1].artist = IF names = <<>>
                                 THEN <<"U", "n", "k", "n", "o", "w", "n">>
                                 ELSE CommaJoined(names, Len(names))

\* the duration hint is an integer
IntegerDuration == ~parseInt(req.query.duration).nan

\* artistMatchRatio = 0: there are tokens and the hit matches none
RatioZero(k) == Len(Tokens) > 0 /\ matchedArtists(Tokens, HitAt(k)) = 0

\* C22: in strict scoring with an integer duration hint, searchJioSaavn of
\* src/unnamed/part_000 never selects a hit whose artistMatchRatio is 0, and
\* the composite of such a hit is at most 4.
C22_NoArtistNeverSelected ==
  (variant = "part_000" /\ Strict /\ IntegerDuration /\ Answered)
    => /\ bestMatch > 0 => ~RatioZero(bestMatch)
       /\ \A k \in 1..Len(data) :
            (RatioZero(k) /\ HitAt(k).name # undefined)
              => Composite(k).v <= 4 * 120 * Len(Tokens)

\* a hit that matches no artist is eligible by its duration, and another
\* hit is selected
C22_Witness ==
  /\ variant = "part_000"
  /\ Strict
  /\ IntegerDuration
  /\ Answered
  /\ bestMatch > 0
  /\ \E k \in 1..Len(data) : RatioZero(k) /\ Lt(DiffSeconds(k), Num(10))

\* C23: in strict scoring with an integer duration hint and at least one
\* author token, when some hit has artistMatchRatio >= 0.5, searchJioSaavn
\* of src/unnamed/part_000 never fails with NoConfidentMatch: it returns a
\* hit whenever every hit has a name, and fails only with the TypeError of
\* a hit without a name; the composite of every named hit of ratio >= 0.5 is
\* at least 5.5, whatever its duration (a missing one included) and title.
C23_HalfRatioAlwaysSelected ==
  ( /\ variant = "part_000"
    /\ Strict
    /\ IntegerDuration
    /\ Len(Tokens) > 0
    /\ Answered
    /\ \E k \in 1..Len(data) : RatioAtLeastHalf(k) )
    => /\ caught # NoConfidentMatch
       /\ bestMatch = 0 => caught = "TypeError" /\ ~AllNamed
       /\ AllNamed => bestMatch > 0 /\ result # <<>> /\ IsSuccessOf(sent[1], "saavn")
       /\ \A k \in 1..Len(data) :
            (RatioAtLeastHalf(k) /\ HitAt(k).name # undefined)
              => Composite(k).v >= 660 * Len(Tokens)

\* the selected hit has ratio >= 0.5, no duration and another title: its
\* composite is 5.5
C23_Witness ==
  /\ variant = "part_000"
  /\ Strict
  /\ IntegerDuration
  /\ bestMatch > 0
  /\ RatioAtLeastHalf(bestMatch)
  /\ HitAt(bestMatch).duration = 0
  /\ Composite(bestMatch) = Num(660 * Len(Tokens))

\* the hints of strict scoring are degenerate: the author hint yields no
\* token, or the duration hint is not an integer
DegenerateHints == Strict /\ (Len(Tokens) = 0 \/ ~IntegerDuration)

\* searchJioSaavn failed with NoConfidentMatch and handler went on to the
\* Stremio instances
FellThrough ==
  /\ bestMatch = 0
  /\ caught = NoConfidentMatch
  /\ pc = "stremio"
  /\ entered = <<"saavn", "stremio">>
  /\ sent = <<>>

\* C24: degenerate hints in strict scoring.  With degenerate hints
\* searchJioSaavn of src/unnamed/part_000 fails with NoConfidentMatch for
\* every list of named hits, and the request goes on to the Stremio
\* instances.
C24_DegenerateHintsRejected ==
  (variant = "part_000" /\ DegenerateHints /\ Answered /\ AllNamed) => FellThrough

\* a hit without a duration that matches at least half of the tokens: its
\* duration difference is the sentinel 999 whatever the duration hint is
NoDurationHalfRatio(k) == HitAt(k).duration = 0 /\ RatioAtLeastHalf(k)

\* C24 amended: with degenerate hints searchJioSaavn of
\* src/unnamed/part_000 fails with NoConfidentMatch and the request goes on
\* to the Stremio instances, unless some hit has no duration and
\* artistMatchRatio >= 0.5; then such a hit is selected and the request is
\* answered from the search.
C24_DegenerateHintsAmended ==
  (variant = "part_000" /\ DegenerateHints /\ Answered /\ AllNamed)
    => IF \E k \in 1..Len(data) : NoDurationHalfRatio(k)
       THEN /\ bestMatch > 0
            /\ NoDurationHalfRatio(bestMatch)
            /\ ~IntegerDuration
            /\ IsSuccessOf(sent[1], "saavn")
       ELSE FellThrough

\* the duration hint is not an integer, a hit with a duration matches the
\* author, and the search fails with NoConfidentMatch
C24_Witness ==
  /\ variant = "part_000"
  /\ Strict
  /\ ~IntegerDuration
  /\ Answered
  /\ \E k \in 1..Len(data) : RatioAtLeastHalf(k) /\ HitAt(k).duration # 0
  /\ FellThrough

============================================================================
